---- MODULE Spec2Model ----
(***************************************************************************)
(* A state-machine model of the console maze game (maze.c): the grid       *)
(* loader, manual play, the randomized depth-first path display, the       *)
(* breadth-first shortest path and the menu loop of main.                  *)
(*                                                                         *)
(* Arrays are 0-based functions, as in the C source.  A cell is a string   *)
(* of one character; NUL is the string terminator that strcpy writes.      *)
(* The capacities MAXR, MAXC and MAX_PATHS_TO_SHOW are scaled down from    *)
(* 105, 105 and 20 so that the state space is finite and small; every      *)
(* guard that mentions them is the source's guard.                         *)
(***************************************************************************)
EXTENDS Integers, Sequences, FiniteSets, TLC

\* ------------------------------------------------------------ capacities
MAXR == 3
MAXC == 4
QSIZE == MAXR * MAXC
MAX_PATHS_TO_SHOW == 2

\* ---------------------------------------------------------------- bounds
\* The shortest-path and manual-play specifications start from every
\* rectangular maze file of at most MaxArea cells, and from every one that
\* the arrays hold with at most MaxPass cells that are not walls.  The path
\* display starts from every file of at most MaxDfsArea cells, and from every
\* one of at most MaxArea cells, at most MaxDfsPass not walls.  The whole
\* program starts from the files of at most MaxMainArea cells, at most
\* MaxMainPass of them not walls.
MaxArea == 6
MaxPass == 3
MaxDfsArea == 4
MaxDfsPass == 3
MaxMainArea == 4
MaxMainPass == 3
\* The loader specification starts from every file of at most MaxLines lines
\* holding at most MaxChars characters in all, and from every file of at most
\* MaxLongLines lines holding at most MaxLongChars characters 'S' and 'E'.
MaxLines == 4
MaxChars == 5
MaxLongLines == 2
MaxLongChars == 9
\* How often maze.txt is replaced while the program runs, and the size of
\* the files that it holds then.
MaxEdits == 1
MaxEnvLines == 2
MaxEnvChars == 3
MaxInputs == 4
MaxValue == 2

\* ------------------------------------------------------------ characters
NUL == "NUL"
Alphabet == {"#", ".", "S", "E"}

RowIdx == 0 .. (MAXR - 1)
ColIdx == 0 .. (MAXC - 1)

\* The direction tables dr[] and dc[]: up, down, left, right.
dr == [k \in 0 .. 3 |-> CASE k = 0 -> -1 [] k = 1 -> 1 [] OTHER -> 0]
dc == [k \in 0 .. 3 |-> CASE k = 2 -> -1 [] k = 3 -> 1 [] OTHER -> 0]

\* A global or {0}-initialised array of the C program.
ZeroGrid == [r \in RowIdx |-> [c \in ColIdx |-> 0]]
ZeroMaze == [r \in RowIdx |-> [c \in ColIdx |-> NUL]]
ZeroQueue == [k \in 0 .. (QSIZE - 1) |-> 0]
\* A local array that the code does not initialise (parent_r, parent_c).
Undef == -2
UndefGrid == [r \in RowIdx |-> [c \in ColIdx |-> Undef]]

\* ------------------------------------------------------------- maze file
\* A file is NoFile (fopen fails) or holds a sequence of text lines, each a
\* sequence of characters followed by a newline.  A last line without its
\* newline is read into the same chunks, so it is not modelled apart.
NoFile == [open |-> FALSE, lines |-> <<>>]
TextFile(ls) == [open |-> TRUE, lines |-> ls]

\* load_maze tells 'S' and 'E' from every other character and nothing else.
LoadAlphabet == {"S", "E", "."}

\* Every sequence of m line lengths whose sum is at most n.
RECURSIVE LenVecs(_, _)
LenVecs(m, n) ==
  IF m = 0 THEN {<<>>}
  ELSE UNION {{<<k>> \o v : v \in LenVecs(m - 1, n - k)} : k \in 0 .. n}

\* Every sequence of lines over the alphabet abc with the lengths lens.
RECURSIVE LinesWith(_, _)
LinesWith(lens, abc) ==
  IF lens = <<>> THEN {<<>>}
  ELSE {<<l>> \o f : l \in [1 .. Head(lens) -> abc], f \in LinesWith(Tail(lens), abc)}

\* The shapes r x c that the arrays hold, of at most area cells.
Shapes(area) == {s \in (1 .. MAXR) \X (1 .. (MAXC - 1)) : s[1] * s[2] <= area}

\* The subsets of the cells of an r x c file with at most n elements.
Sparse(r, c, n) == {Q \in SUBSET ((1 .. r) \X (1 .. c)) : Cardinality(Q) <= n}

\* The rectangular file of r rows and c columns that holds a on the cells of
\* P and walls elsewhere.
GridOn(r, c, P, a) ==
  TextFile([i \in 1 .. r |-> [j \in 1 .. c |-> IF <<i, j>> \in P THEN a[<<i, j>>] ELSE "#"]])

\* fgets(line, MAXC, f) on one text line: at most MAXC - 1 characters per
\* call, stopping after the newline.
RECURSIVE FgetsLine(_)
FgetsLine(raw) ==
  IF Len(raw) <= MAXC - 1 THEN <<raw>>
  ELSE <<SubSeq(raw, 1, MAXC - 1)>> \o FgetsLine(SubSeq(raw, MAXC, Len(raw)))

\* The successive results of fgets over the whole file.
RECURSIVE FgetsAll(_)
FgetsAll(f) ==
  IF f = <<>> THEN <<>>
  ELSE FgetsLine(Head(f) \o <<"\n">>) \o FgetsAll(Tail(f))

\* ------------------------------------------------------------- load_maze
\* strcpy(maze[rows], line): the characters of line, then the terminator; the
\* rest of the row keeps what it held.
StrCpy(row, line) ==
  [c \in ColIdx |->
     IF c < Len(line) THEN line[c + 1]
     ELSE IF c = Len(line) THEN NUL
     ELSE row[c]]

\* The trailing newline of a chunk removed (lines 153-157).
StripNewline(raw) ==
  IF Len(raw) > 0 /\ raw[Len(raw)] = "\n" THEN SubSeq(raw, 1, Len(raw) - 1) ELSE raw

\* A row-length test that rejects only the longer rows.
RowMismatch_longer(rws, len, cls) == rws # 0 /\ len > cls

\* The row-length test of lines 162-165: not the first row, and not its length.
RowMismatch(rws, len, cls) == rws # 0 /\ len # cls

\* A cap that stops the reading one row early.
CapReached_early(rws) == rws >= MAXR - 1

\* The cap of line 174 on the rows stored.
CapReached(rws) == rws >= MAXR

\* The reading loop (lines 152-175) from the k-th result of fgets on.
RECURSIVE ReadLoop(_, _, _, _, _)
ReadLoop(chunks, k, mz, rws, cls) ==
  IF k > Len(chunks) THEN [err |-> "none", maze |-> mz, rows |-> rws, cols |-> cls]
  ELSE
    LET line == StripNewline(chunks[k])
        len == Len(line)
    IN IF len = 0 THEN ReadLoop(chunks, k + 1, mz, rws, cls)
       ELSE
         LET mz2 == [mz EXCEPT ![rws] = StrCpy(@, line)]
             cls2 == IF rws = 0 THEN len ELSE cls
         IN IF RowMismatch(rws, len, cls)
            THEN [err |-> "rows", maze |-> mz2, rows |-> rws, cols |-> cls]
            ELSE IF CapReached(rws + 1)
                 THEN [err |-> "none", maze |-> mz2, rows |-> rws + 1, cols |-> cls2]
                 ELSE ReadLoop(chunks, k + 1, mz2, rws + 1, cls2)

\* A scan that keeps the first 'S' and the first 'E' it meets.
RECURSIVE ScanMarkers_first(_, _, _, _, _)
ScanMarkers_first(mz, rws, cls, k, acc) ==
  IF k >= rws * cls THEN acc
  ELSE
    LET i == k \div cls
        j == k % cls
        a1 == IF mz[i][j] = "S" /\ acc.sr = -1 THEN [acc EXCEPT !.sr = i, !.sc = j] ELSE acc
        a2 == IF mz[i][j] = "E" /\ a1.er = -1 THEN [a1 EXCEPT !.er = i, !.ec = j] ELSE a1
    IN ScanMarkers_first(mz, rws, cls, k + 1, a2)

\* The scan for 'S' and 'E' (lines 185-192), cell k = i * cols + j onwards.
RECURSIVE ScanMarkers(_, _, _, _, _)
ScanMarkers(mz, rws, cls, k, acc) ==
  IF k >= rws * cls THEN acc
  ELSE
    LET i == k \div cls
        j == k % cls
        a1 == IF mz[i][j] = "S" THEN [acc EXCEPT !.sr = i, !.sc = j] ELSE acc
        a2 == IF mz[i][j] = "E" THEN [a1 EXCEPT !.er = i, !.ec = j] ELSE a1
    IN ScanMarkers(mz, rws, cls, k + 1, a2)

\* A marker test that fails only with both markers absent.
MarkerMissing_both(m) == m.sr = -1 /\ m.er = -1

\* The marker test of line 194.
MarkerMissing(m) == m.sr = -1 \/ m.er = -1

\* load_maze (lines 141-202) on file f from the globals g: the globals it
\* leaves, its return value ok and the message msg it prints ("": none).
LoadMaze(f, g) ==
  IF ~f.open THEN [g EXCEPT !.ok = 0, !.msg = "Error: maze.txt not found or cannot be opened!"]
  ELSE
    LET rd == ReadLoop(FgetsAll(f.lines), 1, g.maze, 0, g.cols)
        g1 == [g EXCEPT !.maze = rd.maze, !.rows = rd.rows, !.cols = rd.cols]
    IN IF rd.err = "rows"
       THEN [g1 EXCEPT !.ok = 0, !.msg = "Error: All rows must have the same length!"]
       ELSE IF rd.rows = 0 \/ rd.cols = 0
       THEN [g1 EXCEPT !.ok = 0, !.msg = "Maze is empty!"]
       ELSE
         LET m == ScanMarkers(rd.maze, rd.rows, rd.cols, 0,
                              [sr |-> -1, sc |-> -1, er |-> -1, ec |-> -1])
             g2 == [g1 EXCEPT !.sr = m.sr, !.sc = m.sc, !.er = m.er, !.ec = m.ec]
         IN IF MarkerMissing(m)
            THEN [g2 EXCEPT !.ok = 0, !.msg = "Maze must contain 'S' and 'E'!"]
            ELSE [g2 EXCEPT !.ok = 1]

\* ----------------------------------------------------------------- state
VARIABLES
  file, edits,                      \* maze.txt, and how often it was replaced
  at, status,                       \* position in main; exit status (-1: running)
  out, printed,                     \* the last message printed, the last length printed
  ret, lmsg,                        \* the last load_maze call: its result, its message
  opt,                              \* main's opt
  maze, rows, cols, sr, sc, er, ec, \* the globals of lines 52-55
  pr, pc,                           \* player position
  qr, qc, front, rear,              \* the BFS queue (lines 60-62)
  visited, parent_r, parent_c, found, cr, cc, d,  \* bfs_shortest's locals
  length, walk,                     \* mark_shortest_path's length; the cells its loop visited
  current_path_r, current_path_c, path_len,       \* lines 57-59
  dvisited, count, temp_maze,       \* show_some_solutions's locals
  stack,                            \* the active dfs_find_one_path calls, outermost first
  num, prev, current_len, max_len,  \* the locals of the longest-increasing-run exercise
  run_at, shown, entered            \* its position, the length it printed, the numbers it read

envV == <<file, edits>>
ctlV == <<at, status, out, printed, ret, lmsg, opt>>
gridV == <<maze, rows, cols, sr, sc, er, ec>>
manV == <<pr, pc>>
queueV == <<qr, qc, front, rear>>
bfsV == <<visited, parent_r, parent_c, found, cr, cc, d, length, walk>>
pathV == <<current_path_r, current_path_c, path_len>>
dfsV == <<dvisited, count, temp_maze, stack>>
hwV == <<num, prev, current_len, max_len, run_at, shown, entered>>
vars == <<envV, ctlV, gridV, manV, queueV, bfsV, pathV, dfsV, hwV>>

\* Homework-01, increasing_subsequence_len.c, line 4: the exercise's main is
\* entered; nothing is read or printed yet.
RunEntry ==
  /\ max_len = 0 /\ current_len = 1 /\ prev = 0 /\ num = 0
  /\ run_at = "first" /\ shown = -1 /\ entered = <<>>

\* The state when main is entered, with maze.txt holding f.
InitWith(f) ==
  /\ file = f
  /\ edits = 0
  /\ at = "start" /\ status = -1
  /\ out = "" /\ printed = -1 /\ ret = -1 /\ lmsg = ""
  /\ opt = 0
  /\ maze = ZeroMaze /\ rows = 0 /\ cols = 0
  /\ sr = 0 /\ sc = 0 /\ er = 0 /\ ec = 0
  /\ pr = 0 /\ pc = 0
  /\ qr = ZeroQueue /\ qc = ZeroQueue /\ front = 0 /\ rear = 0
  /\ visited = ZeroGrid /\ parent_r = UndefGrid /\ parent_c = UndefGrid
  /\ found = 0 /\ cr = 0 /\ cc = 0 /\ d = 0
  /\ length = 0 /\ walk = <<>>
  /\ current_path_r = ZeroQueue /\ current_path_c = ZeroQueue /\ path_len = 0
  /\ dvisited = ZeroGrid /\ count = 0 /\ temp_maze = ZeroMaze
  /\ stack = <<>>
  /\ RunEntry

\* The globals load_maze reads and writes, as a record.
Globals ==
  [maze |-> maze, rows |-> rows, cols |-> cols,
   sr |-> sr, sc |-> sc, er |-> er, ec |-> ec, ok |-> 0, msg |-> ""]

\* The call load_maze() as a state change.
CallLoadMaze ==
  LET g == LoadMaze(file, Globals)
  IN /\ maze' = g.maze /\ rows' = g.rows /\ cols' = g.cols
     /\ sr' = g.sr /\ sc' = g.sc /\ er' = g.er /\ ec' = g.ec
     /\ ret' = g.ok /\ lmsg' = g.msg

\* main, lines 609-617: the first load; a failure ends the program with 1.
MainStart ==
  /\ at = "start"
  /\ CallLoadMaze
  /\ out' = IF ret' = 0 THEN "Program terminated." ELSE out
  /\ at' = IF ret' = 0 THEN "exit" ELSE "menu"
  /\ status' = IF ret' = 0 THEN 1 ELSE status
  /\ UNCHANGED <<hwV, envV, printed, opt, manV, queueV, bfsV, pathV, dfsV>>

\* ------------------------------------------------------------ is_valid
\* An is_valid that does not look at the cell.
is_valid_nowall(r, c) ==
  IF r < 0 \/ r >= rows \/ c < 0 \/ c >= cols THEN FALSE
  ELSE TRUE

\* is_valid (lines 275-279): inside the grid and not a wall.
is_valid(r, c) ==
  IF r < 0 \/ r >= rows \/ c < 0 \/ c >= cols THEN FALSE
  ELSE maze[r][c] # "#"

\* The values of bfs_shortest's and mark_shortest_path's locals once the
\* call has returned: they no longer exist, and are held at their defaults.
BfsLocalsGone ==
  /\ visited' = ZeroGrid /\ parent_r' = UndefGrid /\ parent_c' = UndefGrid
  /\ found' = 0 /\ cr' = 0 /\ cc' = 0 /\ d' = 0 /\ length' = 0

\* The same for show_some_solutions.
DfsLocalsGone ==
  /\ dvisited' = ZeroGrid /\ count' = 0
  /\ temp_maze' = ZeroMaze /\ stack' = <<>>

\* Globals that only one mode uses, and that the mode writes before it reads
\* them (pr, pc: lines 331-332; the queue: lines 406-407; the path: lines 518
\* and 462-464): what they hold when the mode has returned is never read, and
\* is held at 0 from the return on.
PlayerDead == pr' = 0 /\ pc' = 0
QueueDead == qr' = ZeroQueue /\ qc' = ZeroQueue /\ front' = 0 /\ rear' = 0
PathDead == current_path_r' = ZeroQueue /\ current_path_c' = ZeroQueue /\ path_len' = 0

\* ---------------------------------------------------------- manual play
\* play_manual, lines 331-332.
EnterManual ==
  /\ pr' = sr /\ pc' = sc
  /\ at' = "manual"
  /\ UNCHANGED <<status, out, printed, ret, lmsg, gridV, queueV, bfsV, pathV, dfsV>>

Keys == {"w", "a", "s", "d", "W", "A", "S", "D", "q", "Q", "x"}

\* A move_player that does not ask is_valid.
move_player_unchecked(k, r, c) ==
  LET nr == IF k \in {"w", "W"} THEN r - 1 ELSE IF k \in {"s", "S"} THEN r + 1 ELSE r
      nc == IF k \in {"w", "W", "s", "S"} THEN c
            ELSE IF k \in {"a", "A"} THEN c - 1
            ELSE IF k \in {"d", "D"} THEN c + 1 ELSE c
  IN IF k \notin {"w", "W", "s", "S", "a", "A", "d", "D"}
     THEN [pr |-> r, pc |-> c, out |-> "Invalid movement! Use w, a, s, d or q to quit."]
     ELSE [pr |-> nr, pc |-> nc, out |-> out]

\* move_player (lines 285-318) for key k from (r, c): the new position and
\* the message printed.
move_player(k, r, c) ==
  LET nr == IF k \in {"w", "W"} THEN r - 1 ELSE IF k \in {"s", "S"} THEN r + 1 ELSE r
      nc == IF k \in {"w", "W", "s", "S"} THEN c
            ELSE IF k \in {"a", "A"} THEN c - 1
            ELSE IF k \in {"d", "D"} THEN c + 1 ELSE c
  IN IF k \notin {"w", "W", "s", "S", "a", "A", "d", "D"}
     THEN [pr |-> r, pc |-> c, out |-> "Invalid movement! Use w, a, s, d or q to quit."]
     ELSE IF is_valid(nr, nc)
     THEN [pr |-> nr, pc |-> nc, out |-> out]
     ELSE [pr |-> r, pc |-> c,
           out |-> "Invalid movement! Cannot go through walls or out of bounds."]

\* A win test that compares the rows only.
AtExit_rowonly == pr = er

\* The condition of line 337.
AtExit == pr = er /\ pc = ec

\* play_manual, lines 337-342: the player stands on the exit.
ManualWin ==
  /\ at = "manual"
  /\ AtExit
  /\ out' = "Congratulations! You reached the exit!"
  /\ at' = "prompt"
  /\ PlayerDead
  /\ UNCHANGED <<hwV, envV, status, printed, ret, lmsg, opt, gridV, queueV, bfsV, pathV, dfsV>>

\* play_manual, lines 344-355: one key is read; q ends the mode, any other
\* key goes to move_player.
ManualKey(k) ==
  /\ at = "manual"
  /\ ~AtExit
  /\ IF k \in {"q", "Q"}
     THEN /\ out' = "You quit the game."
          /\ at' = "prompt"
          /\ PlayerDead
     ELSE LET m == move_player(k, pr, pc)
          IN /\ pr' = m.pr /\ pc' = m.pc /\ out' = m.out
             /\ at' = "manual"
  /\ UNCHANGED <<hwV, envV, status, printed, ret, lmsg, opt, gridV, queueV, bfsV, pathV, dfsV>>

\* ------------------------------------------------------------ the queue
\* A queue_push whose rear wraps after MAXC entries.
queue_push_wrap(q, r, c) ==
  [q EXCEPT !.qr[q.rear] = r, !.qc[q.rear] = c, !.rear = (q.rear + 1) % MAXC]

\* queue_push (lines 111-115) on the queue q = [qr, qc, front, rear].
queue_push(q, r, c) ==
  [q EXCEPT !.qr[q.rear] = r, !.qc[q.rear] = c, !.rear = (q.rear + 1) % QSIZE]

\* A queue_pop that takes the cell pushed last.
queue_pop_lifo(q) ==
  [r |-> q.qr[(q.rear + QSIZE - 1) % QSIZE], c |-> q.qc[(q.rear + QSIZE - 1) % QSIZE],
   q |-> [q EXCEPT !.rear = (q.rear + QSIZE - 1) % QSIZE]]

\* queue_pop (lines 122-126): the cell taken and the queue left.
queue_pop(q) ==
  [r |-> q.qr[q.front], c |-> q.qc[q.front], q |-> [q EXCEPT !.front = (q.front + 1) % QSIZE]]

\* A queue_empty that is true with one cell still queued.
queue_empty_early == rear - front <= 1

\* queue_empty (lines 102-104).
queue_empty == front = rear

\* The queue of lines 60-62 as a record.
Queue == [qr |-> qr, qc |-> qc, front |-> front, rear |-> rear]

\* -------------------------------------------------------- bfs_shortest
\* bfs_shortest, lines 401-410.  Writing visited[sr][sc] outside the array
\* (a start of -1 left by a failed reload) is undefined behaviour.
EnterBfs ==
  IF sr \notin RowIdx \/ sc \notin ColIdx
  THEN /\ at' = "undefined"
       /\ UNCHANGED <<status, out, printed, ret, lmsg, gridV, manV, queueV, bfsV,
                      pathV, dfsV>>
  ELSE LET q == queue_push([qr |-> qr, qc |-> qc, front |-> 0, rear |-> 0], sr, sc)
       IN /\ qr' = q.qr /\ qc' = q.qc /\ front' = q.front /\ rear' = q.rear
          /\ visited' = [ZeroGrid EXCEPT ![sr][sc] = 1]
          /\ parent_r' = [UndefGrid EXCEPT ![sr][sc] = -1]
          /\ parent_c' = [UndefGrid EXCEPT ![sr][sc] = -1]
          /\ found' = 0
          /\ walk' = <<>>
          /\ at' = "bfs_loop"
          /\ UNCHANGED <<status, out, printed, ret, lmsg, gridV, manV, cr, cc, d,
                         length, pathV, dfsV>>

\* bfs_shortest, line 412 and what follows the loop: either queue_pop (lines
\* 122-126) and the first direction, or the end of the search: the message
\* of lines 436-441, or the call of mark_shortest_path (lines 372-373).
BfsLoop ==
  /\ at = "bfs_loop"
  /\ IF ~queue_empty /\ found = 0
     THEN LET p == queue_pop(Queue)
          IN /\ cr' = p.r /\ cc' = p.c
             /\ qr' = p.q.qr /\ qc' = p.q.qc /\ front' = p.q.front /\ rear' = p.q.rear
             /\ d' = 0
             /\ at' = "bfs_for"
             /\ UNCHANGED <<out, visited, parent_r, parent_c, found, length, walk>>
     ELSE IF found = 0
     THEN /\ out' = "No path exists!"
          /\ at' = "prompt"
          /\ BfsLocalsGone
          /\ QueueDead
          /\ UNCHANGED walk
     ELSE /\ cr' = er /\ cc' = ec
          /\ length' = 0
          /\ at' = "mark"
          /\ UNCHANGED <<out, queueV, visited, parent_r, parent_c, found, d, walk>>
  /\ UNCHANGED <<hwV, envV, status, printed, ret, lmsg, opt, gridV, manV, pathV, dfsV>>

\* A neighbour loop that never sets found.
BfsVisit_nofound(q, vis, par_r, par_c, r, c, dir) ==
  LET nr == r + dr[dir]
      nc == c + dc[dir]
  IN IF ~is_valid(nr, nc) THEN [q |-> q, vis |-> vis, par_r |-> par_r, par_c |-> par_c, found |-> 0]
     ELSE IF vis[nr][nc] # 0 THEN [q |-> q, vis |-> vis, par_r |-> par_r, par_c |-> par_c, found |-> 0]
     ELSE [q |-> queue_push(q, nr, nc),
           vis |-> [vis EXCEPT ![nr][nc] = 1],
           par_r |-> [par_r EXCEPT ![nr][nc] = r],
           par_c |-> [par_c EXCEPT ![nr][nc] = c],
           found |-> 0]

\* A neighbour loop that stores the parent's row as its column and its column
\* as its row.
BfsVisit_swapped(q, vis, par_r, par_c, r, c, dir) ==
  LET nr == r + dr[dir]
      nc == c + dc[dir]
  IN IF ~is_valid(nr, nc) THEN [q |-> q, vis |-> vis, par_r |-> par_r, par_c |-> par_c, found |-> 0]
     ELSE IF vis[nr][nc] # 0 THEN [q |-> q, vis |-> vis, par_r |-> par_r, par_c |-> par_c, found |-> 0]
     ELSE [q |-> queue_push(q, nr, nc),
           vis |-> [vis EXCEPT ![nr][nc] = 1],
           par_r |-> [par_r EXCEPT ![nr][nc] = c],
           par_c |-> [par_c EXCEPT ![nr][nc] = r],
           found |-> IF nr = er /\ nc = ec THEN 1 ELSE 0]

\* One direction of the neighbour loop (lines 417-433).
BfsVisit(q, vis, par_r, par_c, r, c, dir) ==
  LET nr == r + dr[dir]
      nc == c + dc[dir]
  IN IF ~is_valid(nr, nc) THEN [q |-> q, vis |-> vis, par_r |-> par_r, par_c |-> par_c, found |-> 0]
     ELSE IF vis[nr][nc] # 0 THEN [q |-> q, vis |-> vis, par_r |-> par_r, par_c |-> par_c, found |-> 0]
     ELSE [q |-> queue_push(q, nr, nc),
           vis |-> [vis EXCEPT ![nr][nc] = 1],
           par_r |-> [par_r EXCEPT ![nr][nc] = r],
           par_c |-> [par_c EXCEPT ![nr][nc] = c],
           found |-> IF nr = er /\ nc = ec THEN 1 ELSE 0]

\* The for loop of lines 417-433, one direction per step; found = 1 breaks.
BfsFor ==
  /\ at = "bfs_for"
  /\ LET v == BfsVisit(Queue, visited, parent_r, parent_c, cr, cc, d)
     IN /\ qr' = v.q.qr /\ qc' = v.q.qc /\ front' = v.q.front /\ rear' = v.q.rear
        /\ visited' = v.vis /\ parent_r' = v.par_r /\ parent_c' = v.par_c
        /\ found' = v.found
        /\ d' = IF v.found = 1 THEN d ELSE d + 1
        /\ at' = IF v.found = 1 \/ d + 1 >= 4 THEN "bfs_loop" ELSE "bfs_for"
  /\ UNCHANGED <<hwV, envV, status, out, printed, ret, lmsg, opt, gridV, manV, cr, cc,
                 length, walk, pathV, dfsV>>

\* A marking that does not spare 'S' and 'E'.
MarkCell_any(mz, r, c) == [mz EXCEPT ![r][c] = "b"]

\* A marking that spares 'S' only.
MarkCell_noexit(mz, r, c) ==
  IF mz[r][c] # "S" THEN [mz EXCEPT ![r][c] = "b"] ELSE mz

\* One iteration of mark_shortest_path's loop (lines 376-383) from (r, c).
MarkCell(mz, r, c) ==
  IF mz[r][c] # "S" /\ mz[r][c] # "E" THEN [mz EXCEPT ![r][c] = "b"] ELSE mz

\* mark_shortest_path, lines 375-394, one iteration per step; when the walk
\* is back at the start the length is printed and bfs_shortest returns.  A
\* parent that was never written is read as an undefined value.
MarkStep ==
  /\ at = "mark"
  /\ IF cr # sr \/ cc # sc
     THEN IF parent_r[cr][cc] \notin RowIdx \/ parent_c[cr][cc] \notin ColIdx
          THEN /\ at' = "undefined"
               /\ UNCHANGED <<out, printed, maze, queueV, bfsV>>
          ELSE /\ maze' = MarkCell(maze, cr, cc)
               /\ cr' = parent_r[cr][cc] /\ cc' = parent_c[cr][cc]
               /\ length' = length + 1
               /\ walk' = Append(walk, <<cr, cc>>)
               /\ at' = "mark"
               /\ UNCHANGED <<out, printed, queueV, visited, parent_r, parent_c, found, d>>
     ELSE /\ out' = "Shortest path (length: %d steps):"
          /\ printed' = length
          /\ at' = "prompt"
          /\ BfsLocalsGone
          /\ QueueDead
          /\ UNCHANGED <<maze, walk>>
  /\ UNCHANGED <<hwV, envV, status, ret, lmsg, opt, rows, cols, sr, sc, er, ec, manV, pathV, dfsV>>

\* --------------------------------------------------- dfs_find_one_path
\* The shuffle of lines 473-480; j3, j2, j1 are the values of rand() % (i + 1)
\* for i = 3, 2, 1.
Swap(f, i, j) == [f EXCEPT ![i] = f[j], ![j] = f[i]]

Shuffle(j3, j2, j1) == Swap(Swap(Swap([k \in 0 .. 3 |-> k], 3, j3), 2, j2), 1, j1)

\* An active call keeps r, c, i and the set used of the directions
\* dirs[0 .. i-1] (and dirs[i] while the call made for it runs).  The order of
\* the directions not yet used is drawn when they are used: rand() is a
\* nondeterministic input either way, and dirs[k] is read once, when i = k.
\* NextDirs is every value dirs[i] can have in a shuffle whose first i
\* entries are the used ones.
Shuffles == {Shuffle(j[1], j[2], j[3]) : j \in (0 .. 3) \X (0 .. 2) \X (0 .. 1)}

NextDirsOf ==
  [used \in SUBSET (0 .. 3), i \in 0 .. 3 |->
     {p[i] : p \in {q \in Shuffles : {q[k] : k \in 0 .. (i - 1)} = used}}]

NextDirs(used, i) == NextDirsOf[used, i]

\* A call dfs_find_one_path(r, c, vis) with path_len = plen below the active
\* calls stk, up to its loop (lines 462-480).  At the exit it returns 1, and
\* so does every active call (line 489).  Writing current_path or visited
\* outside the array is undefined behaviour.
DfsEnter(r, c, vis, plen, stk) ==
  IF plen \notin 0 .. (QSIZE - 1)
  THEN /\ at' = "undefined"
       /\ UNCHANGED <<pathV, dvisited, stack>>
  ELSE /\ current_path_r' = [current_path_r EXCEPT ![plen] = r]
       /\ current_path_c' = [current_path_c EXCEPT ![plen] = c]
       /\ path_len' = plen + 1
       /\ IF r = er /\ c = ec
          THEN /\ at' = "sol_found"
               /\ dvisited' = vis
               /\ stack' = <<>>
          ELSE IF r \notin RowIdx \/ c \notin ColIdx
          THEN /\ at' = "undefined"
               /\ dvisited' = vis
               /\ stack' = stk
          ELSE /\ at' = "dfs"
               /\ dvisited' = [vis EXCEPT ![r][c] = 1]
               /\ stack' = Append(stk, [r |-> r, c |-> c, i |-> 0, used |-> {}])

Top == stack[Len(stack)]

\* A loop that ends after three directions.
DfsDone_three == Top.i >= 3

\* The loop of line 482 has run through its four directions.
DfsDone == Top.i >= 4

\* The condition of line 487 without its visited part.
DfsEligible_novisited(dir) == is_valid(Top.r + dr[dir], Top.c + dc[dir])

\* The condition of line 487 for the innermost call and the direction dir.
DfsEligible(dir) ==
  /\ is_valid(Top.r + dr[dir], Top.c + dc[dir])
  /\ dvisited[Top.r + dr[dir]][Top.c + dc[dir]] = 0

\* Lines 482-488: the neighbour in direction dir = dirs[i] is valid and not
\* visited, the call descends.
DfsDescend(dir) ==
  /\ at = "dfs"
  /\ ~DfsDone
  /\ dir \in NextDirs(Top.used, Top.i)
  /\ DfsEligible(dir)
  /\ DfsEnter(Top.r + dr[dir], Top.c + dc[dir], dvisited, path_len,
              [stack EXCEPT ![Len(stack)].used = @ \cup {dir}])
  /\ UNCHANGED <<hwV, envV, status, out, printed, ret, lmsg, opt, gridV, manV, queueV, bfsV,
                 count, temp_maze>>

\* Lines 482-487: the neighbour in direction dir = dirs[i] is rejected, the
\* loop goes on.
DfsSkip(dir) ==
  /\ at = "dfs"
  /\ ~DfsDone
  /\ dir \in NextDirs(Top.used, Top.i)
  /\ ~DfsEligible(dir)
  /\ stack' = [stack EXCEPT ![Len(stack)].i = @ + 1, ![Len(stack)].used = @ \cup {dir}]
  /\ UNCHANGED <<hwV, envV, ctlV, gridV, manV, queueV, bfsV, pathV, dvisited, count,
                 temp_maze>>

\* A return of 0 that leaves the cell marked visited.
DfsBacktrack_nounmark ==
  /\ at = "dfs"
  /\ DfsDone
  /\ IF Len(stack) = 1
     THEN /\ out' = "No more paths found."
          /\ at' = "prompt"
          /\ DfsLocalsGone
          /\ PathDead
     ELSE /\ path_len' = path_len - 1
          /\ stack' = [SubSeq(stack, 1, Len(stack) - 1) EXCEPT ![Len(stack) - 1].i = @ + 1]
          /\ UNCHANGED <<out, at, count, temp_maze, current_path_r, current_path_c,
                         dvisited>>
  /\ UNCHANGED <<hwV, envV, status, printed, ret, lmsg, opt, gridV, manV, queueV, bfsV>>

\* Lines 494-496: every direction is tried, the call returns 0.  Its caller
\* goes on with its next direction; with no caller, show_some_solutions
\* prints "No more paths found." and returns (lines 522-532).
DfsBacktrack ==
  /\ at = "dfs"
  /\ DfsDone
  /\ IF Len(stack) = 1
     THEN /\ out' = "No more paths found."
          /\ at' = "prompt"
          /\ DfsLocalsGone
          /\ PathDead
     ELSE /\ dvisited' = [dvisited EXCEPT ![Top.r][Top.c] = 0]
          /\ path_len' = path_len - 1
          /\ stack' = [SubSeq(stack, 1, Len(stack) - 1) EXCEPT ![Len(stack) - 1].i = @ + 1]
          /\ UNCHANGED <<out, at, count, temp_maze, current_path_r, current_path_c>>
  /\ UNCHANGED <<hwV, envV, status, printed, ret, lmsg, opt, gridV, manV, queueV, bfsV>>

\* ------------------------------------------------- show_some_solutions
\* show_some_solutions, lines 504-514.
EnterSolutions ==
  /\ count' = 0
  /\ out' = "Searching for possible paths..."
  /\ at' = "sol_loop"
  /\ UNCHANGED <<status, printed, ret, lmsg, gridV, manV, queueV, bfsV, pathV,
                 dvisited, temp_maze, stack>>

\* Lines 516-520: a fresh visited array, an empty path and the top-level call.
SolLoop ==
  /\ at = "sol_loop"
  /\ IF count < MAX_PATHS_TO_SHOW
     THEN /\ DfsEnter(sr, sc, ZeroGrid, 0, <<>>)
          /\ UNCHANGED <<count, temp_maze>>
     ELSE /\ at' = "prompt"
          /\ DfsLocalsGone
          /\ PathDead
  /\ UNCHANGED <<hwV, envV, status, out, printed, ret, lmsg, opt, gridV, manV, queueV, bfsV>>

\* strlen of a row.
RECURSIVE StrLen(_, _)
StrLen(row, k) == IF k \notin ColIdx \/ row[k] = NUL THEN k ELSE StrLen(row, k + 1)

\* Lines 536-540: strcpy(temp_maze[i], maze[i]) for every loaded row.
CopyRows(tm, mz, rws) ==
  [r \in RowIdx |->
     IF r < rws
     THEN [c \in ColIdx |-> IF c <= StrLen(mz[r], 0) THEN mz[r][c] ELSE tm[r][c]]
     ELSE tm[r]]

\* Lines 543-545: '^' on the cells i .. plen - 2 of the current path.
RECURSIVE MarkPath(_, _, _, _, _)
MarkPath(tm, pth_r, pth_c, i, plen) ==
  IF i >= plen - 1 THEN tm
  ELSE MarkPath([tm EXCEPT ![pth_r[i]][pth_c[i]] = "^"], pth_r, pth_c, i + 1, plen)

\* Lines 534-566: a found path is counted and displayed on the copy; the
\* MAX_PATHS_TO_SHOW-th path ends the mode.
ShowPath ==
  /\ at = "sol_found"
  /\ printed' = path_len - 1
  /\ IF count + 1 >= MAX_PATHS_TO_SHOW
     THEN /\ out' = "Maximum number of paths reached."
          /\ at' = "prompt"
          /\ DfsLocalsGone
          /\ PathDead
     ELSE /\ count' = count + 1
          /\ temp_maze' = MarkPath(CopyRows(temp_maze, maze, rows),
                                   current_path_r, current_path_c, 1, path_len)
          /\ out' = "--- Possible Path #%d (length: %d steps) ---"
          /\ at' = "ask"
          /\ UNCHANGED <<dvisited, stack, pathV>>
  /\ UNCHANGED <<hwV, envV, status, ret, lmsg, opt, gridV, manV, queueV, bfsV>>

Answers == {"y", "Y", "n"}

\* A question whose every answer asks for another path.
Answer_always(a) ==
  /\ at = "ask"
  /\ at' = "sol_loop"
  /\ UNCHANGED <<dvisited, count, temp_maze, stack, pathV>>
  /\ UNCHANGED <<hwV, envV, status, out, printed, ret, lmsg, opt, gridV, manV, queueV, bfsV>>

\* Lines 568-575: another path only on y or Y.
Answer(a) ==
  /\ at = "ask"
  /\ IF a \in {"y", "Y"}
     THEN /\ at' = "sol_loop"
          /\ UNCHANGED <<dvisited, count, temp_maze, stack, pathV>>
     ELSE /\ at' = "prompt"
          /\ DfsLocalsGone
          /\ PathDead
  /\ UNCHANGED <<hwV, envV, status, out, printed, ret, lmsg, opt, gridV, manV, queueV, bfsV>>

\* ------------------------------------------------------------------ main
\* show_menu and the dispatch of lines 620-642 for the choice o.
ShowMenu(o) ==
  /\ at = "menu"
  /\ opt' = o
  /\ CASE o = 1 -> EnterManual
       [] o = 2 -> EnterSolutions
       [] o = 3 -> EnterBfs
       [] o = 4 -> /\ out' = "Goodbye!"
                   /\ at' = "exit"
                   /\ status' = 0
                   /\ UNCHANGED <<printed, ret, lmsg, gridV, manV, queueV, bfsV, pathV, dfsV>>
       [] OTHER -> /\ out' = "Invalid option!"
                   /\ at' = "menu"
                   /\ UNCHANGED <<status, printed, ret, lmsg, gridV, manV, queueV, bfsV,
                                  pathV, dfsV>>
  /\ UNCHANGED <<hwV, envV>>

\* A sub-prompt that ends the program on the answer 2 only.
SubPrompt_exit2(a) ==
  /\ at = "prompt"
  /\ walk' = <<>>
  /\ IF a = 2
     THEN /\ out' = "Goodbye!"
          /\ at' = "exit"
          /\ status' = 0
          /\ UNCHANGED <<ret, lmsg, gridV>>
     ELSE /\ CallLoadMaze
          /\ out' = IF lmsg' # "" THEN lmsg' ELSE out
          /\ at' = "menu"
          /\ UNCHANGED status
  /\ UNCHANGED <<hwV, envV, printed, opt, manV, queueV, visited, parent_r, parent_c, found, cr,
                 cc, d, length, pathV, dfsV>>

\* A sub-prompt that shows the menu again without the call of line 665.
SubPrompt_noreload(a) ==
  /\ at = "prompt"
  /\ walk' = <<>>
  /\ IF a # 1
     THEN /\ out' = "Goodbye!"
          /\ at' = "exit"
          /\ status' = 0
     ELSE /\ at' = "menu"
          /\ UNCHANGED <<out, status>>
  /\ UNCHANGED <<hwV, envV, printed, ret, lmsg, opt, gridV, manV, queueV, visited, parent_r, parent_c,
                 found, cr, cc, d, length, pathV, dfsV>>

\* The sub-prompt after a mode (lines 650-665): 1 reloads the maze, its
\* result ignored, and shows the menu again; any other answer ends the
\* program with 0.  The record of the last walk ends here.
SubPrompt(a) ==
  /\ at = "prompt"
  /\ walk' = <<>>
  /\ IF a # 1
     THEN /\ out' = "Goodbye!"
          /\ at' = "exit"
          /\ status' = 0
          /\ UNCHANGED <<ret, lmsg, gridV>>
     ELSE /\ CallLoadMaze
          /\ out' = IF lmsg' # "" THEN lmsg' ELSE out
          /\ at' = "menu"
          /\ UNCHANGED status
  /\ UNCHANGED <<hwV, envV, printed, opt, manV, queueV, visited, parent_r, parent_c, found, cr,
                 cc, d, length, pathV, dfsV>>

\* ----------------------------------------------------------- environment
\* maze.txt is replaced by the file f while the program waits at the
\* sub-prompt.
EditFile(f) ==
  /\ at = "prompt"
  /\ edits < MaxEdits
  /\ f # file
  /\ file' = f
  /\ edits' = edits + 1
  /\ UNCHANGED <<hwV, ctlV, gridV, manV, queueV, bfsV, pathV, dfsV>>

\* ------------------------------------- the longest-increasing-run exercise
\* The integers scanf_s can return; -1 ends the input.  After MaxInputs
\* numbers the user enters -1.
Inputs == (-2) .. MaxValue
NextInputs == IF Len(entered) < MaxInputs THEN Inputs ELSE {-1}

\* A comparison that also counts an equal number as an increase.
Increases_weak(n, p) == n >= p

\* The comparison of line 13.
Increases(n, p) == n > p

\* Lines 7-9: the first number is read and is its own predecessor.
ReadFirst(n) ==
  /\ run_at = "first"
  /\ num' = n /\ prev' = n
  /\ entered' = Append(entered, n)
  /\ run_at' = "loop"
  /\ UNCHANGED <<max_len, current_len, shown>>
  /\ UNCHANGED <<envV, ctlV, gridV, manV, queueV, bfsV, pathV, dfsV>>

\* Lines 11-30: one iteration of the loop, with the number n read at its end.
LoopBody(n) ==
  /\ run_at = "loop"
  /\ num # -1
  /\ IF Increases(num, prev)
     THEN /\ current_len' = current_len + 1
          /\ max_len' = IF current_len + 1 > max_len THEN current_len + 1 ELSE max_len
     ELSE /\ max_len' = IF current_len > max_len THEN current_len ELSE max_len
          /\ current_len' = 1
  /\ prev' = num
  /\ num' = n
  /\ entered' = Append(entered, n)
  /\ UNCHANGED <<run_at, shown>>
  /\ UNCHANGED <<envV, ctlV, gridV, manV, queueV, bfsV, pathV, dfsV>>

\* Lines 11 and 33-36: -1 was read, max_len is printed and main returns.
PrintResult ==
  /\ run_at = "loop"
  /\ num = -1
  /\ shown' = max_len
  /\ run_at' = "done"
  /\ UNCHANGED <<num, prev, current_len, max_len, entered>>
  /\ UNCHANGED <<envV, ctlV, gridV, manV, queueV, bfsV, pathV, dfsV>>

\* -------------------------------------------------------- specifications
\* main is entered with maze.txt a rectangular file of at most area cells,
\* at most n of them not walls.
InitGrids(area, n) ==
  \E s \in Shapes(area) : \E P \in Sparse(s[1], s[2], n) : \E a \in [P -> Alphabet \ {"#"}] :
    InitWith(GridOn(s[1], s[2], P, a))

\* main is entered with maze.txt a file of at most m lines over abc that
\* hold at most n characters in all.
InitTexts(m, n, abc) ==
  \E k \in 0 .. m : \E v \in LenVecs(k, n) : \E ls \in LinesWith(v, abc) :
    InitWith(TextFile(ls))

Modes(opts) == \E o \in opts : ShowMenu(o)
Prompt == \E a \in {0, 1, 2} : SubPrompt(a)
Manual == ManualWin \/ \E k \in Keys : ManualKey(k)
Bfs == BfsLoop \/ BfsFor \/ MarkStep
Dfs ==
  \/ SolLoop
  \/ \E dir \in 0 .. 3 : DfsDescend(dir)
  \/ \E dir \in 0 .. 3 : DfsSkip(dir)
  \/ DfsBacktrack
  \/ ShowPath
  \/ \E a \in Answers : Answer(a)
Edit ==
  \/ EditFile(NoFile)
  \/ \E k \in 0 .. MaxEnvLines : \E v \in LenVecs(k, MaxEnvChars) :
       \E ls \in LinesWith(v, LoadAlphabet) : EditFile(TextFile(ls))

\* The whole program on an unchanged maze file.
Init == InitGrids(MaxMainArea, MaxMainPass)
Next == MainStart \/ Modes({1, 2, 3, 4, 5}) \/ Manual \/ Dfs \/ Bfs \/ Prompt
Spec == Init /\ [][Next]_vars

\* The whole program, the maze file replaced while it runs.
InitEnv == InitWith(NoFile) \/ InitTexts(MaxEnvLines, MaxEnvChars, LoadAlphabet)
NextEnv == Next \/ Edit
SpecEnv == InitEnv /\ [][NextEnv]_vars

\* The loader alone.
InitLoad ==
  \/ InitWith(NoFile)
  \/ InitTexts(MaxLines, MaxChars, LoadAlphabet)
  \/ InitTexts(MaxLongLines, MaxLongChars, {"S", "E"})
NextLoad == MainStart
SpecLoad == InitLoad /\ [][NextLoad]_vars

\* The shortest-path mode.
InitBfs == InitGrids(MaxArea, MaxArea) \/ InitGrids(MAXR * MAXC, MaxPass)
NextBfs == MainStart \/ Modes({3, 4, 5}) \/ Bfs \/ Prompt
SpecBfs == InitBfs /\ [][NextBfs]_vars

\* The path display.
InitDfs == InitGrids(MaxDfsArea, MaxDfsArea) \/ InitGrids(MaxArea, MaxDfsPass)
NextDfs == MainStart \/ Modes({2, 4, 5}) \/ Dfs \/ Prompt
SpecDfs == InitDfs /\ [][NextDfs]_vars

\* Manual play.
InitManual == InitGrids(MaxArea, MaxArea) \/ InitGrids(MAXR * MAXC, MaxPass)
NextManual == MainStart \/ Modes({1, 4, 5}) \/ Manual \/ Prompt
SpecManual == InitManual /\ [][NextManual]_vars

\* The longest-increasing-run exercise, a program of its own.
InitRun == InitWith(NoFile)
NextRun ==
  \/ \E n \in NextInputs : ReadFirst(n)
  \/ \E n \in NextInputs : LoopBody(n)
  \/ PrintResult
SpecRun == InitRun /\ [][NextRun]_vars

\* ---------------------------------------------------------------- claims
\* The graph the claims speak of: the cells of the loaded grid that are not
\* walls, two of them adjacent when they differ by one step up, down, left or
\* right.
Cells == (0 .. (rows - 1)) \X (0 .. (cols - 1))
Open == {p \in Cells : maze[p[1]][p[2]] # "#"}
Abs(x) == IF x < 0 THEN -x ELSE x
Adjacent(p, q) == Abs(p[1] - q[1]) + Abs(p[2] - q[2]) = 1

\* The number of steps of a shortest path from the cells of level k to the
\* cell to, level by level; -1 when there is none.
RECURSIVE Distance(_, _, _, _)
Distance(level, seen, to, k) ==
  IF to \in level THEN k
  ELSE LET nxt == {q \in Open \ seen : \E p \in level : Adjacent(p, q)}
       IN IF nxt = {} THEN -1 ELSE Distance(nxt, seen \cup nxt, to, k + 1)

TrueDistance == Distance({<<sr, sc>>}, {<<sr, sc>>}, <<er, ec>>, 0)

\* The shortest-path mode has printed a length.
BfsReported == at = "prompt" /\ opt = 3 /\ out = "Shortest path (length: %d steps):"

\* C1: whenever bfs_shortest reports a path, the length it prints is the
\* number of steps of a shortest path from the start to the exit in the graph
\* of the cells that are in bounds and not walls.
C1_ShortestLength == BfsReported => printed = TrueDistance

\* A length is printed on a grid of six open cells where the exit is two
\* steps from the start, and four steps the other way round.
C1_Witness == BfsReported /\ printed = 2 /\ Cardinality(Open) = 6

\* The cells mark_shortest_path's loop has been at, from the exit on.
Walked == IF at = "mark" THEN Append(walk, <<cr, cc>>) ELSE Append(walk, <<sr, sc>>)

\* C2: after a successful search, mark_shortest_path, following the parent
\* links from the exit, ends at the start, and the cells it visits are, in
\* reverse, a path from the start to the exit: consecutive cells adjacent, no
\* cell twice, every cell in bounds and not a wall.
C2_MarkWalk ==
  /\ at # "undefined"
  /\ (at = "mark" \/ BfsReported) =>
       /\ Walked[1] = <<er, ec>>
       /\ \A i \in 1 .. Len(Walked) : Walked[i] \in Open
       /\ \A i \in 1 .. (Len(Walked) - 1) : Adjacent(Walked[i], Walked[i + 1])
       /\ \A i, j \in 1 .. Len(Walked) : i # j => Walked[i] # Walked[j]

\* The walk has ended at the start after four steps.
C2_Witness == BfsReported /\ Len(walk) = 4 /\ walk[1] = <<er, ec>>

\* The k-th cell of the current path.
PathCell(k) == <<current_path_r[k], current_path_c[k]>>

\* C3: every cell of a path that dfs_find_one_path returns is inside the
\* grid and is not a wall.
C3_PathCellsOpen ==
  at = "sol_found" => \A k \in 0 .. (path_len - 1) : PathCell(k) \in Open

\* A path of three cells is returned that goes round a wall.
C3_Witness ==
  /\ at = "sol_found" /\ path_len = 3
  /\ \E p \in Cells \ Open : Adjacent(p, PathCell(0)) /\ Adjacent(p, PathCell(2))

\* C4: a path that dfs_find_one_path returns begins at the start, ends at the
\* exit, moves one step up, down, left or right between consecutive cells
\* and holds no cell twice.
C4_PathShape ==
  at = "sol_found" =>
    /\ path_len >= 1
    /\ PathCell(0) = <<sr, sc>>
    /\ PathCell(path_len - 1) = <<er, ec>>
    /\ \A k \in 0 .. (path_len - 2) : Adjacent(PathCell(k), PathCell(k + 1))
    /\ \A j, k \in 0 .. (path_len - 1) : j # k => PathCell(j) # PathCell(k)

\* The second search returns a path of three cells that goes the other way
\* round than the one displayed before.
C4_Witness ==
  /\ at = "sol_found" /\ count = 1 /\ path_len = 3
  /\ temp_maze[PathCell(1)[1]][PathCell(1)[2]] # "^"
  /\ \E p \in Cells : temp_maze[p[1]][p[2]] = "^"

\* C5: after any failed load_maze, the first one or a reload, the program
\* ends with a non-zero exit status and runs no mode.
C5_FailedLoadEnds == ret = 0 => at = "exit" /\ status = 1

\* The lines of maze.txt that are not empty.
NonEmpty == SelectSeq(file.lines, LAMBDA l : Len(l) > 0)

\* load_maze has run and has failed with the row-length error.
RowError == at # "start" /\ ret = 0 /\ lmsg = "Error: All rows must have the same length!"

\* C6 as the specification states it: for every maze file in which a
\* non-empty line has a length other than that of the first non-empty line,
\* load_maze fails with the row-length error.
C6_RaggedFileFails ==
  (at # "start" /\ file.open /\ \E i \in 1 .. Len(NonEmpty) : Len(NonEmpty[i]) # Len(NonEmpty[1]))
    => RowError

\* The lengths of the pieces in which fgets returns a line of n characters:
\* MAXC - 1 characters at a time.
RECURSIVE PieceLens(_)
PieceLens(n) ==
  IF n = 0 THEN <<>>
  ELSE IF n <= MAXC - 1 THEN <<n>>
  ELSE <<MAXC - 1>> \o PieceLens(n - (MAXC - 1))

RECURSIVE PiecesOf(_)
PiecesOf(ls) == IF ls = <<>> THEN <<>> ELSE PieceLens(Len(Head(ls))) \o PiecesOf(Tail(ls))

\* The lengths of the first MAXR non-empty pieces of maze.txt.
RowsRead ==
  LET all == PiecesOf(file.lines)
  IN SubSeq(all, 1, IF Len(all) < MAXR THEN Len(all) ELSE MAXR)

\* C6, amended: load_maze fails with the row-length error whenever, among
\* the first MAXR non-empty pieces that fgets returns for maze.txt, one has a
\* length other than that of the first.
C6_RaggedRowsFail ==
  (at # "start" /\ file.open /\ \E i \in 1 .. Len(RowsRead) : RowsRead[i] # RowsRead[1])
    => RowError

\* The load has failed on a file of more than MAXR lines whose MAXR-th row
\* is the first of another length.
C6_Witness ==
  /\ RowError
  /\ Len(file.lines) > MAXR /\ Len(RowsRead) = MAXR
  /\ RowsRead[MAXR] # RowsRead[1]
  /\ \A i \in 1 .. (MAXR - 1) : RowsRead[i] = RowsRead[1]

\* The positions of main from the menu to the return of a mode.
ModeAts == {"menu", "manual", "sol_loop", "dfs", "sol_found", "ask", "bfs_loop", "bfs_for", "mark"}

\* C7 as the specification states it: no mode changes the global grid; maze
\* holds the same cells when a mode returns as when it started.
C7_ModesKeepGrid == [][(at \in ModeAts) => (maze' = maze)]_vars

\* C7, amended: manual play and the path display never change the global
\* grid; the shortest-path mode changes it only in mark_shortest_path, one
\* cell of the found path at a time, from a cell that is neither 'S' nor 'E'
\* to 'b'.
C7_OnlyMarkChangesGrid ==
  [][(at \in ModeAts) =>
       (\/ maze' = maze
        \/ /\ at = "mark" /\ opt = 3
           /\ <<cr, cc>> \in Open /\ maze[cr][cc] \notin {"S", "E"}
           /\ maze' = [maze EXCEPT ![cr][cc] = "b"])]_vars

\* The shortest-path mode has returned and has left a 'b' on every cell of
\* the path between the start and the exit.
C7_Witness ==
  /\ BfsReported /\ printed >= 2
  /\ Cardinality({p \in Cells : maze[p[1]][p[2]] = "b"}) = printed - 1

\* The global grid holds the maze file, cell by cell.
MazeIsFile ==
  /\ file.open
  /\ rows = Len(file.lines)
  /\ \A i \in 1 .. rows : cols = Len(file.lines[i])
  /\ \A p \in Cells : maze[p[1]][p[2]] = file.lines[p[1] + 1][p[2] + 1]

\* C8: with the maze file unchanged, after any menu selections, whenever a
\* mode begins (and until it writes a mark) every cell of the global grid is
\* the cell of the maze file: no 'b' of an earlier shortest-path run is left.
C8_ModeStartsFromFile == at \in ModeAts \ {"mark"} => MazeIsFile

\* The menu is shown again after a shortest-path run that has marked the
\* open cell between the start and the exit.
C8_Witness ==
  /\ at = "menu" /\ opt = 3 /\ out = "Shortest path (length: %d steps):"
  /\ printed = 2 /\ Cardinality(Open) = 3
  /\ \E p \in Open : maze[p[1]][p[2]] = "."

\* The step that a key asks for.
StepOf(k) ==
  CASE k \in {"w", "W"} -> <<-1, 0>>
    [] k \in {"s", "S"} -> <<1, 0>>
    [] k \in {"a", "A"} -> <<0, -1>>
    [] k \in {"d", "D"} -> <<0, 1>>
    [] OTHER -> <<0, 0>>

\* The effect of the key k on the player: one step when k is one of w, a, s,
\* d and the cell there is open, none otherwise.
KeyMoves(k) ==
  LET t == <<pr + StepOf(k)[1], pc + StepOf(k)[2]>>
  IN IF StepOf(k) # <<0, 0>> /\ t \in Open
     THEN <<pr', pc'>> = t /\ Adjacent(<<pr, pc>>, <<pr', pc'>>)
     ELSE <<pr', pc'>> = <<pr, pc>>

\* C9: during manual play the player is always on a cell inside the grid
\* that is not a wall; a key whose cell is out of bounds or a wall, and any
\* unrecognized key, leaves the position as it is, and an accepted w, a, s or
\* d moves it by exactly one step.
C9_ManualPosition ==
  /\ [](at = "manual" => <<pr, pc>> \in Open)
  /\ [][\A k \in Keys \ {"q", "Q"} : ManualKey(k) => KeyMoves(k)]_vars

\* The player has left the start and has then been refused a move.
C9_Witness ==
  /\ at = "manual"
  /\ <<pr, pc>> # <<sr, sc>>
  /\ out = "Invalid movement! Cannot go through walls or out of bounds."

\* C10: play_manual starts with the player on the start cell; it ends only
\* when the player is on the exit or the key read is q or Q; and with the
\* player on the exit it ends with the success message, no key being read.
C10_ManualEnds ==
  [][/\ (at = "menu" /\ at' = "manual") => (pr' = sr /\ pc' = sc)
     /\ (at = "manual" /\ at' # "manual") =>
          (\/ pr = er /\ pc = ec
           \/ \E k \in {"q", "Q"} : ManualKey(k))
     /\ (at = "manual" /\ pr = er /\ pc = ec) =>
          (at' = "prompt" /\ out' = "Congratulations! You reached the exit!")]_vars

\* Manual play has ended with the success message.
C10_Witness ==
  at = "prompt" /\ opt = 1 /\ out = "Congratulations! You reached the exit!"

\* The shortest-path mode has returned to main.
BfsReturned == at = "prompt" /\ opt = 3

\* C11: bfs_shortest reports "No path exists!" exactly when the exit cannot
\* be reached from the start through cells in bounds that are not walls;
\* then no cell of the grid is marked, and control is back in main's loop,
\* at the sub-prompt that leads to the menu, the program not ended.
C11_NoPathReport ==
  BfsReturned =>
    /\ (out = "No path exists!") <=> (TrueDistance = -1)
    /\ out \in {"No path exists!", "Shortest path (length: %d steps):"}
    /\ (out = "No path exists!") => (MazeIsFile /\ status = -1)

\* No path is reported on a grid where the search has left the start.
C11_Witness ==
  /\ BfsReturned /\ out = "No path exists!"
  /\ \E p \in Open : Adjacent(p, <<sr, sc>>)

\* The most cells a grid holds.
MaxCells == MAXR * (MAXC - 1)

RECURSIVE Pow(_, _)
Pow(b, n) == IF n = 0 THEN 1 ELSE b * Pow(b, n - 1)

\* How far the search has come: the loop counters of the active calls read
\* as the digits of one number, the outermost call first.
RECURSIVE Progress(_, _)
Progress(stk, k) ==
  IF k > Len(stk) THEN 0
  ELSE (stk[k].i + 1) * Pow(6, MaxCells - k) + Progress(stk, k + 1)

\* The path display has returned to main after a search that failed.
DfsFailed == at = "prompt" /\ opt = 2 /\ out = "No more paths found."

\* C12: a top-level call of dfs_find_one_path from the start, with nothing
\* visited and an empty path, terminates, and returns success if and only if
\* the exit can be reached from the start, whatever the shuffles give.  It
\* terminates because every step of the search raises Progress, which is
\* bounded: no more calls are active than the grid has cells.
C12_SearchDecides ==
  /\ [](at # "undefined")
  /\ [](at = "dfs" => Len(stack) <= Cardinality(Open) /\ Len(stack) <= MaxCells)
  /\ [][(at = "dfs" /\ at' = "dfs") => (Progress(stack', 1) > Progress(stack, 1))]_vars
  /\ [](at = "sol_found" => TrueDistance # -1)
  /\ [](DfsFailed => TrueDistance = -1)

\* A search has failed on a grid where it has left the start.
C12_Witness == DfsFailed /\ \E p \in Open : Adjacent(p, <<sr, sc>>)

\* C13: one run of show_some_solutions displays at most MAX_PATHS_TO_SHOW
\* paths whatever the user answers: a path is displayed only with fewer than
\* MAX_PATHS_TO_SHOW shown before, and the MAX_PATHS_TO_SHOW-th ends the run;
\* each search starts with only the start visited and the path empty before
\* it; another search follows only the answer y or Y; and the run ends at
\* the first search that fails.
C13_DisplayRun ==
  [][/\ (at = "sol_found") =>
          /\ count < MAX_PATHS_TO_SHOW
          /\ printed' = path_len - 1
          /\ IF count + 1 = MAX_PATHS_TO_SHOW
             THEN at' = "prompt" /\ out' = "Maximum number of paths reached."
             ELSE at' = "ask" /\ count' = count + 1
     /\ (at = "sol_loop") =>
          /\ count < MAX_PATHS_TO_SHOW
          /\ at' \in {"dfs", "sol_found"}
          /\ path_len' = 1 /\ current_path_r'[0] = sr /\ current_path_c'[0] = sc
          /\ at' = "dfs" => (dvisited' = [ZeroGrid EXCEPT ![sr][sc] = 1] /\ Len(stack') = 1)
     /\ (at' = "sol_loop") => (at \in {"menu", "ask"} /\ (at = "menu" => count' = 0))
     /\ \A a \in Answers : Answer(a) =>
          /\ (at' = "sol_loop") <=> (a \in {"y", "Y"})
          /\ (at' = "prompt") <=> (a \notin {"y", "Y"})
     /\ (at = "dfs" /\ at' \notin {"dfs", "sol_found"}) =>
          (at' = "prompt" /\ out' = "No more paths found.")]_vars

\* The run has ended on its MAX_PATHS_TO_SHOW-th path.
C13_Witness ==
  at = "prompt" /\ opt = 2 /\ out = "Maximum number of paths reached." /\ printed >= 2

\* The reading loop of load_maze ends without an error: maze.txt can be
\* opened, and its first MAXR non-empty pieces exist and are of one length.
ReadsWell ==
  /\ file.open
  /\ Len(RowsRead) > 0
  /\ \A i \in 1 .. Len(RowsRead) : RowsRead[i] = RowsRead[1]

\* The cells of the loaded rows that hold the character ch.
Holding(ch) == {p \in Cells : maze[p[1]][p[2]] = ch}

\* C14: load_maze fails for every file whose loaded rows hold no 'S' or no
\* 'E', and otherwise succeeds with (sr, sc) a cell that holds 'S' and
\* (er, ec) a cell that holds 'E'.
C14_MarkersRequired ==
  (at # "start" /\ ReadsWell) =>
    IF Holding("S") = {} \/ Holding("E") = {}
    THEN ret = 0 /\ lmsg = "Maze must contain 'S' and 'E'!"
    ELSE ret = 1 /\ lmsg = "" /\ <<sr, sc>> \in Holding("S") /\ <<er, ec>> \in Holding("E")

\* The load has failed on rows that hold an 'S' and no 'E'.
C14_Witness ==
  /\ at # "start" /\ ReadsWell /\ ret = 0
  /\ Holding("S") # {} /\ Holding("E") = {} /\ rows >= 2

\* The positions of main inside a mode.
InMode == ModeAts \ {"menu"}

\* C15: main runs a mode for the menu choices 1, 2 and 3 only; choice 4 ends
\* the program with status 0, any other choice shows the menu again and runs
\* no mode; every mode returns to the sub-prompt; there the answer 1 reloads
\* the grid and shows the menu, and any other answer ends the program with
\* status 0.
C15_MainLoop ==
  [][/\ \A o \in {1, 2, 3, 4, 5} : ShowMenu(o) =>
          CASE o = 1 -> at' = "manual"
            [] o = 2 -> at' = "sol_loop"
            [] o = 3 -> at' = "bfs_loop"
            [] o = 4 -> at' = "exit" /\ status' = 0
            [] OTHER -> at' = "menu" /\ status' = status /\ UNCHANGED <<gridV, manV, printed>>
     /\ (at' \in InMode /\ at \notin InMode) => at = "menu"
     /\ (at \in InMode /\ at' \notin InMode) => (at' = "prompt" /\ status' = -1)
     /\ \A a \in {0, 1, 2} : SubPrompt(a) =>
          IF a = 1
          THEN at' = "menu" /\ status' = -1 /\ MazeIsFile'
          ELSE at' = "exit" /\ status' = 0
     /\ (at = "exit") => (at' = "exit" /\ status' = status)]_vars

\* The program has ended with status 0 at the sub-prompt after a
\* shortest-path run.
C15_Witness == at = "exit" /\ status = 0 /\ opt = 3 /\ out = "Goodbye!" /\ printed >= 1

\* C16: in bfs_shortest, once the exit is marked visited, no further cell is
\* marked visited, given a parent or enqueued, and none is dequeued: the
\* search stops at the first discovery of the exit.
C16_StopsAtExit ==
  [][(at \in {"bfs_loop", "bfs_for"} /\ <<er, ec>> \in Cells /\ visited[er][ec] # 0) =>
       /\ visited' = visited /\ parent_r' = parent_r /\ parent_c' = parent_c
       /\ UNCHANGED <<qr, qc, front, rear>>
       /\ at' \in {"bfs_loop", "mark"}]_vars

\* The exit has been discovered with cells still queued and directions of
\* the dequeued cell still to try.
C16_Witness ==
  /\ at = "bfs_loop" /\ found = 1 /\ visited[er][ec] # 0
  /\ front # rear /\ d < 3
  /\ \E p \in Open : visited[p[1]][p[2]] = 0

\* The cells marked in the visited array of show_some_solutions, the cells
\* current_path[0 .. n-1], and the cells of the active calls.
Marked == {p \in RowIdx \X ColIdx : dvisited[p[1]][p[2]] # 0}
PathCells(n) == {PathCell(k) : k \in 0 .. (n - 1)}
CallCell(k) == <<stack[k].r, stack[k].c>>

\* C17: at every point of a DFS search the cells marked visited are exactly
\* the cells of current_path[0 .. path_len-1] other than the exit, all
\* distinct, so path_len never exceeds rows*cols; a dfs_find_one_path call
\* that returns failure leaves the visited set and path_len as they were
\* when it was entered.  The cells of the path are the cells of the active
\* calls, which no step changes below the innermost call, so the state a
\* call is entered in is the one the path below it determines.
C17_VisitedIsPath ==
  /\ [](at = "dfs" =>
         /\ path_len = Len(stack) /\ path_len >= 1
         /\ \A k \in 1 .. Len(stack) : PathCell(k - 1) = CallCell(k)
         /\ Marked = PathCells(path_len)
         /\ <<er, ec>> \notin Marked
         /\ Cardinality(Marked) = path_len
         /\ path_len <= rows * cols)
  /\ [](at \in {"sol_found", "ask"} =>
         /\ PathCell(path_len - 1) = <<er, ec>>
         /\ Marked = PathCells(path_len) \ {<<er, ec>>}
         /\ Cardinality(Marked) = path_len - 1
         /\ path_len <= rows * cols)
  /\ [][(at = "dfs" /\ at' = "dfs") =>
         /\ \A k \in 1 .. Len(stack) : k <= Len(stack') => CallCell(k)' = CallCell(k)
         /\ Len(stack') < Len(stack) =>
              /\ Len(stack') = Len(stack) - 1
              /\ path_len' = path_len - 1
              /\ Marked' = Marked \ {CallCell(Len(stack))}
              /\ Marked' = PathCells(path_len - 1)]_vars
  /\ [][(at = "dfs" /\ at' = "prompt") =>
         (Len(stack) = 1 /\ path_len = 1 /\ Marked = {<<sr, sc>>})]_vars

\* A call made for a neighbour has returned failure in a grid whose exit can
\* be reached: the neighbour's direction is used, and the neighbour is
\* passable and no longer visited.
C17_Witness ==
  /\ at = "dfs" /\ TrueDistance # -1
  /\ \E dir \in Top.used : DfsEligible(dir)

\* The character of the maze file at the cell p, the cells of the global
\* grid that differ from the file, and the cells of the reconstructed path
\* between the start and the exit.
FileCell(p) == file.lines[p[1] + 1][p[2] + 1]
Changed == {p \in Cells : maze[p[1]][p[2]] # FileCell(p)}
Between == {walk[i] : i \in 2 .. Len(walk)}

\* C18 as the specification states it: after a successful shortest-path run
\* the changed cells are exactly the path cells that hold neither 'S' nor
\* 'E', each now 'b'; the start, the exit, the walls and the cells off the
\* path are unchanged; and the marked cells number the reported length
\* minus one.
C18_MarksInterior ==
  BfsReported =>
    /\ Changed = {p \in Between : FileCell(p) \notin {"S", "E"}}
    /\ \A p \in Changed : maze[p[1]][p[2]] = "b"
    /\ <<sr, sc>> \notin Changed /\ <<er, ec>> \notin Changed
    /\ Changed \subseteq Open
    /\ Cardinality(Changed) = printed - 1

\* C18, amended: the changed cells are exactly the cells of the path
\* between the start and the exit that held none of 'S', 'E' and 'b', each
\* now 'b'; the start, the exit, the walls and the cells off the path are
\* unchanged; the marked cells number the reported length minus one, less
\* the cells between the start and the exit that hold a further 'S' or 'E'.
C18_MarksUnlabelled ==
  BfsReported =>
    /\ Changed = {p \in Between : FileCell(p) \notin {"S", "E", "b"}}
    /\ \A p \in Changed : maze[p[1]][p[2]] = "b"
    /\ <<sr, sc>> \notin Changed /\ <<er, ec>> \notin Changed
    /\ Changed \subseteq Open
    /\ Cardinality(Between) = printed - 1
    /\ Cardinality(Changed) =
         printed - 1 - Cardinality({p \in Between : FileCell(p) \in {"S", "E", "b"}})

\* A path of three steps is reported whose two cells between the start and
\* the exit are a second 'E', left as it is, and a cell now marked 'b'.
C18_Witness ==
  /\ BfsReported /\ printed = 3
  /\ Cardinality(Changed) = 1
  /\ \E p \in Between : FileCell(p) = "E" /\ maze[p[1]][p[2]] = "E"

\* The last cell of a set of cells in row-major order.
LastOf(S) == CHOOSE p \in S : \A q \in S : q[1] < p[1] \/ (q[1] = p[1] /\ q[2] <= p[2])
Several(ch) == Cardinality(Holding(ch)) >= 2

\* What C19 says of a load: it succeeds, the start and the exit are the last
\* 'S' and the last 'E' in row-major order, and every 'S' and 'E' cell is a
\* passable cell of the grid.
LastMarkers ==
  /\ ret = 1 /\ lmsg = ""
  /\ <<sr, sc>> = LastOf(Holding("S"))
  /\ <<er, ec>> = LastOf(Holding("E"))
  /\ \A p \in Holding("S") \cup Holding("E") : is_valid(p[1], p[2])

\* C19 as the specification states it: when the loaded grid holds several
\* 'S' cells or several 'E' cells load_maze succeeds, the start (the exit)
\* is the last 'S' ('E') in row-major order and the other 'S' and 'E' cells
\* stay in the grid as passable cells.
C19_SeveralMarkersLoad ==
  (at # "start" /\ ReadsWell /\ (Several("S") \/ Several("E"))) => LastMarkers

\* C19, amended: the same of a loaded grid that holds several 'S' cells or
\* several 'E' cells and at least one of each.
C19_LastMarkersKept ==
  (/\ at # "start" /\ ReadsWell
   /\ (Several("S") \/ Several("E"))
   /\ Holding("S") # {} /\ Holding("E") # {}) => LastMarkers

\* A grid of two rows with two 'S' cells and two 'E' cells has been loaded.
C19_Witness ==
  /\ at # "start" /\ ReadsWell /\ ret = 1
  /\ Several("S") /\ Several("E") /\ rows = 2

\* The globals when main is entered, and the file of the first MAXR
\* non-empty lines of maze.txt.
EntryGlobals ==
  [maze |-> ZeroMaze, rows |-> 0, cols |-> 0,
   sr |-> 0, sc |-> 0, er |-> 0, ec |-> 0, ok |-> 0, msg |-> ""]
CappedFile == TextFile(SubSeq(NonEmpty, 1, MAXR))

\* C20: load_maze never stores more than MAXR rows.  For a file with more
\* non-empty lines than MAXR the lines beyond the cap are ignored without
\* any error: when the MAXR rows read have one length, MAXR rows of that
\* length are stored and no row-length error is reported, whatever the
\* later lines hold; and the grid, the dimensions, the start and the exit,
\* the result and the message are those of loading the first MAXR non-empty
\* lines only.
C20_RowCap ==
  /\ rows <= MAXR
  /\ (at # "start" /\ file.open /\ Len(NonEmpty) > MAXR) =>
       /\ Len(RowsRead) = MAXR
       /\ ReadsWell => (rows = MAXR /\ cols = RowsRead[1] /\ ~RowError
                        /\ lmsg \in {"", "Maze must contain 'S' and 'E'!"})
       /\ LET g == LoadMaze(CappedFile, EntryGlobals)
          IN /\ maze = g.maze /\ rows = g.rows /\ cols = g.cols
             /\ sr = g.sr /\ sc = g.sc /\ er = g.er /\ ec = g.ec
             /\ ret = g.ok /\ lmsg = g.msg

\* A file of MAXR + 1 lines has been loaded whose last line is longer than
\* the rows before it.
C20_Witness ==
  /\ at # "start" /\ ret = 1
  /\ Len(NonEmpty) = MAXR + 1 /\ rows = MAXR
  /\ Len(NonEmpty[MAXR + 1]) > cols

\* The positions of bfs_shortest at which the queue is in use, the cell
\* stored at the index k of the queue, the cells marked visited, and the
\* cells enqueued and not yet dequeued, oldest first.
BfsAts == {"bfs_loop", "bfs_for", "mark"}
Entry(k) == <<qr[k], qc[k]>>
VisitedCells == {p \in RowIdx \X ColIdx : visited[p[1]][p[2]] # 0}
Pending == [k \in 1 .. (rear - front) |-> Entry(front + k - 1)]

\* C21: in every BFS run each cell is enqueued at most once, when it is
\* first marked visited, so the pushes never exceed rows*cols <= QSIZE;
\* front <= rear with no wrap-around; no entry is overwritten; and
\* queue_empty is true exactly when every enqueued cell has been dequeued.
\* The entries 0 .. rear-1 are the cells pushed, pairwise distinct, and are
\* the visited cells; a push appends the newly visited cell at rear and
\* adds one to rear, a pop takes the oldest pending cell and adds one to
\* front.
C21_QueueNoWrap ==
  /\ [](at \in BfsAts =>
         /\ 0 <= front /\ front <= rear
         /\ rear <= rows * cols /\ rows * cols <= QSIZE /\ rear < QSIZE
         /\ \A j, k \in 0 .. (rear - 1) : j # k => Entry(j) # Entry(k)
         /\ {Entry(k) : k \in 0 .. (rear - 1)} = VisitedCells
         /\ Cardinality(VisitedCells) = rear
         /\ queue_empty <=> (Pending = <<>>))
  /\ [][(at \in BfsAts /\ at' \in BfsAts) =>
         /\ \A k \in 0 .. (rear - 1) : Entry(k)' = Entry(k)
         /\ (visited' # visited) =>
              /\ \E p \in Cells : /\ visited[p[1]][p[2]] = 0
                                  /\ VisitedCells' = VisitedCells \cup {p}
                                  /\ Pending' = Append(Pending, p)
              /\ rear' = rear + 1 /\ front' = front
         /\ (visited' = visited) => rear' = rear
         /\ (front' # front) =>
              /\ at = "bfs_loop" /\ ~queue_empty
              /\ front' = front + 1
              /\ <<cr', cc'>> = Head(Pending)
              /\ Pending' = Tail(Pending)]_vars

\* Every cell of a grid of six cells has been enqueued, and three of them
\* dequeued.
C21_Witness ==
  /\ at \in BfsAts /\ rear = rows * cols /\ rear >= 6 /\ front >= 3

\* The numbers entered before the terminating -1, and the length of the
\* longest run of consecutive numbers of s, each greater than the one before.
Before == SelectSeq(entered, LAMBDA x : x # -1)
IsRun(s, i, j) == \A k \in i .. (j - 1) : s[k] < s[k + 1]
LongestRun(s) ==
  IF s = <<>> THEN 0
  ELSE CHOOSE m \in 1 .. Len(s) :
         /\ \E i \in 1 .. Len(s) : i + m - 1 <= Len(s) /\ IsRun(s, i, i + m - 1)
         /\ \A i, j \in 1 .. Len(s) : (i <= j /\ IsRun(s, i, j)) => j - i + 1 <= m

\* C22: for every sequence of integers entered before the terminating -1 the
\* exercise prints the length of the longest run of consecutive inputs, each
\* strictly greater than the one before: 1 when no two consecutive inputs
\* increase, 0 when -1 is the first input.
C22_LongestRun ==
  run_at = "done" =>
    /\ shown = LongestRun(Before)
    /\ (Before = <<>>) => shown = 0
    /\ (Before # <<>> /\ \A k \in 1 .. (Len(Before) - 1) : Before[k] >= Before[k + 1])
         => shown = 1

\* Four numbers were entered: the second is not greater than the first, and
\* the last three increase.
C22_Witness ==
  /\ run_at = "done" /\ shown = 3
  /\ Len(Before) = 4 /\ Before[1] >= Before[2]

====
